---- MODULE Spec2Model ----
(***************************************************************************)
(* Directional grid traversal (util), the XMAS word search (day04) and the *)
(* guard simulation (day06) of AdventOfCode2024.                           *)
(*                                                                         *)
(* Coordinates are zero-based as in the Rust source: a position is <<x, y>>*)
(* (column, row); row y of a grid g is g[y + 1] and its cell x is          *)
(* g[y + 1][x + 1].  An Option is a sequence of length 0 (None) or 1       *)
(* (Some).                                                                 *)
(***************************************************************************)
EXTENDS Integers, Sequences, FiniteSets, TLC

VARIABLES
    grid,   \* the Vec<Vec<T>> handed to util / the Grid of day04
    call,   \* the last call of a util function and what it returned
    scan,   \* count_xmas_occurrences: loop index, running total, last call
    input,  \* day06: the Vec<String> read from the input file
    lab,    \* day06: the LabState (obstacles, visited, guard)
    pc,     \* day06: where main is
    trail   \* day06, history: the cells the guard has stood on, those it has come
            \* back to, the position and heading each advance has ended in

vars == <<grid, call, scan, input, lab, pc, trail>>

\* ------------------------------------------------------------------ bounds

MaxRows == 3
MaxCols == 3
ScanRows == 4
ScanCols == 4
LabRows == 3
LabCols == 4
MaxObstacles == 2
MaxTest == 12
MaxNumber == 3
MaxNumbers == 3
MaxInstructions == 4

\* ------------------------------------------------------------------ util

Up == "Up"
Down == "Down"
Left == "Left"
Right == "Right"
UpperRight == "UpperRight"
UpperLeft == "UpperLeft"
LowerRight == "LowerRight"
LowerLeft == "LowerLeft"

Direction == {Up, Down, Left, Right, UpperRight, UpperLeft, LowerRight, LowerLeft}

None == <<>>
Some(v) == <<v>>

Neighbor_new_swapped(direction, x, y) == [direction |-> direction, position |-> <<y, x>>]

Neighbor_new(direction, x, y) == [direction |-> direction, position |-> <<x, y>>]

\* grid.get(y).is_some()
row_get(g, y) == y >= 0 /\ y < Len(g)

\* grid.get(y).and_then(|r| r.get(x)).is_some(); grid[y].get(x).is_some() for a row y that exists
cell_get(g, x, y) == row_get(g, y) /\ x >= 0 /\ x < Len(g[y + 1])

Neighbor_next(self, g) ==
    LET direction == self.direction
        x == self.position[1]
        y == self.position[2]
    IN  CASE direction = Right ->
               IF cell_get(g, x + 1, y) THEN Some(Neighbor_new(Right, x + 1, y)) ELSE None
          [] direction = Left ->
               IF row_get(g, y) /\ x > 0 THEN Some(Neighbor_new(Left, x - 1, y)) ELSE None
          [] direction = Up ->
               IF y > 0 THEN Some(Neighbor_new(Up, x, y - 1)) ELSE None
          [] direction = Down ->
               IF cell_get(g, x, y + 1) THEN Some(Neighbor_new(Down, x, y + 1)) ELSE None
          [] direction = UpperRight ->
               IF y > 0 /\ cell_get(g, x + 1, y - 1)
               THEN Some(Neighbor_new(UpperRight, x + 1, y - 1)) ELSE None
          [] direction = UpperLeft ->
               IF y > 0 /\ x > 0 THEN Some(Neighbor_new(UpperLeft, x - 1, y - 1)) ELSE None
          [] direction = LowerRight ->
               IF cell_get(g, x + 1, y + 1)
               THEN Some(Neighbor_new(LowerRight, x + 1, y + 1)) ELSE None
          [] direction = LowerLeft ->
               IF row_get(g, y + 1) /\ x > 0
               THEN Some(Neighbor_new(LowerLeft, x - 1, y + 1)) ELSE None

\* neighbor_in_direction with the bounds test of Right moved one column left
neighbor_in_direction_off_by_one(g, direction, x, y) ==
    CASE direction = Up ->
           IF y - 1 >= 0 THEN Some(Neighbor_new(direction, x, y - 1)) ELSE None
      [] direction = Down ->
           IF row_get(g, y + 1) THEN Some(Neighbor_new(direction, x, y + 1)) ELSE None
      [] direction = Left ->
           IF x - 1 >= 0 THEN Some(Neighbor_new(direction, x - 1, y)) ELSE None
      [] direction = Right ->
           IF cell_get(g, x, y) THEN Some(Neighbor_new(direction, x + 1, y)) ELSE None
      [] direction = UpperLeft ->
           IF y - 1 >= 0 /\ x > 0 THEN Some(Neighbor_new(direction, x - 1, y - 1)) ELSE None
      [] direction = UpperRight ->
           IF y - 1 >= 0 /\ cell_get(g, x + 1, y - 1)
           THEN Some(Neighbor_new(direction, x + 1, y - 1)) ELSE None
      [] direction = LowerLeft ->
           IF row_get(g, y + 1) /\ x > 0
           THEN Some(Neighbor_new(direction, x - 1, y + 1)) ELSE None
      [] direction = LowerRight ->
           IF row_get(g, y + 1) /\ cell_get(g, x + 1, y + 1)
           THEN Some(Neighbor_new(direction, x + 1, y + 1)) ELSE None

\* y.checked_sub(1) is Some exactly when y - 1 >= 0; row y exists (the caller's
\* position is in bounds), so grid[y] does not panic.
neighbor_in_direction(g, direction, x, y) ==
    CASE direction = Up ->
           IF y - 1 >= 0 THEN Some(Neighbor_new(direction, x, y - 1)) ELSE None
      [] direction = Down ->
           IF row_get(g, y + 1) THEN Some(Neighbor_new(direction, x, y + 1)) ELSE None
      [] direction = Left ->
           IF x - 1 >= 0 THEN Some(Neighbor_new(direction, x - 1, y)) ELSE None
      [] direction = Right ->
           IF cell_get(g, x + 1, y) THEN Some(Neighbor_new(direction, x + 1, y)) ELSE None
      [] direction = UpperLeft ->
           IF y - 1 >= 0 /\ x > 0 THEN Some(Neighbor_new(direction, x - 1, y - 1)) ELSE None
      [] direction = UpperRight ->
           IF y - 1 >= 0 /\ cell_get(g, x + 1, y - 1)
           THEN Some(Neighbor_new(direction, x + 1, y - 1)) ELSE None
      [] direction = LowerLeft ->
           IF row_get(g, y + 1) /\ x > 0
           THEN Some(Neighbor_new(direction, x - 1, y + 1)) ELSE None
      [] direction = LowerRight ->
           IF row_get(g, y + 1) /\ cell_get(g, x + 1, y + 1)
           THEN Some(Neighbor_new(direction, x + 1, y + 1)) ELSE None

\* directions.into_iter().filter_map(|d| neighbor_in_direction(grid, d, x, y)).collect()
RECURSIVE filter_map(_, _, _, _)
filter_map(directions, g, x, y) ==
    IF directions = <<>> THEN <<>>
    ELSE neighbor_in_direction(g, Head(directions), x, y)
             \o filter_map(Tail(directions), g, x, y)

neighbors_without_right(g, x, y, include_diagonals) ==
    LET directions ==
            IF include_diagonals
            THEN <<Up, Down, Left, Right>> \o <<UpperLeft, UpperRight, LowerLeft, LowerRight>>
            ELSE <<Up, Down, Left>>
    IN  filter_map(directions, g, x, y)

neighbors(g, x, y, include_diagonals) ==
    LET directions ==
            IF include_diagonals
            THEN <<Up, Down, Left, Right>> \o <<UpperLeft, UpperRight, LowerLeft, LowerRight>>
            ELSE <<Up, Down, Left, Right>>
    IN  filter_map(directions, g, x, y)

\* ------------------------------------------------------------------ grids

\* The positions of a grid, and the grids whose rows all have one length.
Positions(g) == UNION {{<<x, y>> : x \in 0 .. Len(g[y + 1]) - 1} : y \in 0 .. Len(g) - 1}

IsRectangular(g) == \A i, j \in 1 .. Len(g) : Len(g[i]) = Len(g[j])

\* A grid whose rows have the given lengths, every cell holding c.
Blank(lens, c) == [i \in 1 .. Len(lens) |-> [j \in 1 .. lens[i] |-> c]]

\* Every shape of at most rows rows of at most cols cells, ragged ones included.
Shapes(rows, cols) == UNION {[1 .. h -> 0 .. cols] : h \in 1 .. rows}

\* ------------------------------------------------------------------ util calls

\* The util functions are pure: a behaviour draws a grid, then makes one call
\* with arguments drawn from the grid's positions and records what it returned.

NoCall == [op |-> "none", direction |-> Up, x |-> 0, y |-> 0, diagonals |-> FALSE,
           result |-> None]
NoScan == [k |-> 0, occurrences |-> 0, pc |-> "idle", reads |-> {}]
NoLab == [parsed |-> FALSE]
NoTrail == [occupied |-> {}, crossed |-> {}, ended |-> {}, repeated |-> FALSE]

InitUtil ==
    /\ grid \in {Blank(lens, 0) : lens \in Shapes(MaxRows, MaxCols)}
    /\ call = NoCall
    /\ scan = NoScan
    /\ input = <<>>
    /\ lab = NoLab
    /\ pc = "idle"
    /\ trail = NoTrail

Step ==
    /\ call.op = "none"
    /\ \E p \in Positions(grid), d \in Direction :
           /\ call' = [op |-> "neighbor_in_direction", direction |-> d, x |-> p[1], y |-> p[2],
                    diagonals |-> FALSE,
                    result |-> neighbor_in_direction(grid, d, p[1], p[2])]
           /\ UNCHANGED <<grid, scan, input, lab, pc, trail>>

Advance ==
    /\ call.op = "none"
    /\ \E p \in Positions(grid), d \in Direction :
           /\ call' = [op |-> "next", direction |-> d, x |-> p[1], y |-> p[2],
                    diagonals |-> FALSE,
                    result |-> Neighbor_next(Neighbor_new(d, p[1], p[2]), grid)]
           /\ UNCHANGED <<grid, scan, input, lab, pc, trail>>

Enumerate ==
    /\ call.op = "none"
    /\ \E p \in Positions(grid), diag \in BOOLEAN :
           /\ call' = [op |-> "neighbors", direction |-> Up, x |-> p[1], y |-> p[2],
                    diagonals |-> diag,
                    result |-> neighbors(grid, p[1], p[2], diag)]
           /\ UNCHANGED <<grid, scan, input, lab, pc, trail>>

NextUtil == Step \/ Advance \/ Enumerate

SpecUtil == InitUtil /\ [][NextUtil]_vars

\* ------------------------------------------------------------------ C1 .. C3

\* The cell one step from <<x, y>> in a direction, by plain arithmetic.
Delta(d) ==
    CASE d = Up -> <<0, -1>>
      [] d = Down -> <<0, 1>>
      [] d = Left -> <<-1, 0>>
      [] d = Right -> <<1, 0>>
      [] d = UpperLeft -> <<-1, -1>>
      [] d = UpperRight -> <<1, -1>>
      [] d = LowerLeft -> <<-1, 1>>
      [] d = LowerRight -> <<1, 1>>

Ahead(x, y, d, n) == <<x + n * Delta(d)[1], y + n * Delta(d)[2]>>

InGrid(g, p) == cell_get(g, p[1], p[2])

\* C1: every Neighbor that neighbor_in_direction returns, on any grid (ragged
\* ones included) and from any in-bounds position, names a cell that exists.
C1_StepStaysInGrid ==
    (call.op = "neighbor_in_direction" /\ call.result # None)
        => InGrid(grid, call.result[1].position)

\* C2: Neighbor::next and neighbor_in_direction return the same result for
\* every grid, in-bounds position and direction.
C2_NextEqualsStep ==
    call.op = "next"
        => call.result = neighbor_in_direction(grid, call.direction, call.x, call.y)

\* C3: on a rectangular grid neighbors returns exactly one Neighbor for each
\* requested direction whose adjacent cell lies inside the grid, tagged with
\* that direction and that cell, and nothing else.
C3_NeighborsExact ==
    (call.op = "neighbors" /\ IsRectangular(grid)) =>
        LET requested == IF call.diagonals THEN Direction ELSE {Up, Down, Left, Right}
            expected == {Neighbor_new(d, Ahead(call.x, call.y, d, 1)[1],
                                         Ahead(call.x, call.y, d, 1)[2]) :
                           d \in {e \in requested : InGrid(grid, Ahead(call.x, call.y, e, 1))}}
        IN  /\ {call.result[i] : i \in 1 .. Len(call.result)} = expected
            /\ Len(call.result) = Cardinality(expected)

\* An edge cell that is no corner: five of the eight directions stay inside.
C3_Witness ==
    /\ call.op = "neighbors"
    /\ IsRectangular(grid)
    /\ call.diagonals
    /\ Len(call.result) = 5

\* ------------------------------------------------------------------ day04

\* "XMAS".chars().collect()
word == <<"X", "M", "A", "S">>

\* self.0[y][x]; indexing a cell that does not exist panics
cell(g, x, y) == g[y + 1][x + 1]

\* The while loop of xmas_occurrences_from from its i-th turn on, walking one
\* ray: the i it ends with, whether an index was out of range, and the cells
\* read.  target is the function's local `word`.
RECURSIVE ray(_, _, _, _, _)
ray(target, g, neighbor, i, reads) ==
    IF ~(i < Len(target)) THEN [i |-> i, panic |-> FALSE, reads |-> reads]
    ELSE LET expected == target[i + 1]
             n_x == neighbor.position[1]
             n_y == neighbor.position[2]
             read == reads \cup {<<n_x, n_y>>}
         IN  IF ~cell_get(g, n_x, n_y) THEN [i |-> i, panic |-> TRUE, reads |-> read]
             ELSE IF cell(g, n_x, n_y) # expected
                  THEN [i |-> i, panic |-> FALSE, reads |-> read]
                  ELSE LET n == Neighbor_next(neighbor, g)
                       IN  IF n # None
                           THEN ray(target, g, n[1], i + 1, read)
                           ELSE [i |-> i + 1, panic |-> FALSE, reads |-> read]

\* The for loop of xmas_occurrences_from over the neighbors still to try.
RECURSIVE rays(_, _, _, _, _)
rays(target, g, todo, occurrences, reads) ==
    IF todo = <<>> THEN [panic |-> FALSE, occurrences |-> occurrences, reads |-> reads]
    ELSE LET r == ray(target, g, Head(todo), 1, reads)
         IN  IF r.panic
             THEN [panic |-> TRUE, occurrences |-> occurrences, reads |-> r.reads]
             ELSE rays(target, g, Tail(todo),
                       IF r.i = Len(target) THEN occurrences + 1 ELSE occurrences, r.reads)

\* The body of xmas_occurrences_from below the line that sets its local `word`.
occurrences_from(target, g, x, y) ==
    IF cell(g, x, y) # target[1]
    THEN [panic |-> FALSE, occurrences |-> 0, reads |-> {<<x, y>>}]
    ELSE rays(target, g, neighbors(g, x, y, TRUE), 0, {<<x, y>>})

xmas_occurrences_from(g, x, y) == occurrences_from(word, g, x, y)

\* for y in 0..self.0.len() { for x in 0..self.0[y].len() { .. } }: the cells in
\* the order count_xmas_occurrences visits them.
RECURSIVE scan_order(_, _)
scan_order(g, y) ==
    IF ~(y < Len(g)) THEN <<>>
    ELSE [x1 \in 1 .. Len(g[y + 1]) |-> <<x1 - 1, y>>] \o scan_order(g, y + 1)

\* Letter grids: the letter of cell <<x, y>> is word[a * x + b * y + c] (indices
\* taken modulo the word's length), so that a ray in a direction spells the
\* word forwards, backwards or not at all, in several directions at once and
\* up to the grid's edge; one cell of the diagonal may hold '.' instead, which
\* breaks the rays through it at their second, third or fourth letter.
Slopes == {0, 1, Len(word) - 1}

Letters(lens, a, b, c, hole) ==
    [i \in 1 .. Len(lens) |->
        [j \in 1 .. lens[i] |->
            IF i = j /\ i = hole THEN "."
            ELSE word[((a * (j - 1) + b * (i - 1) + c) % Len(word)) + 1]]]

\* Rectangles, and the same with one row cut short or drawn out, the longest rows
\* of at most rows by cols cells.
ScanShapes(rows, cols) ==
    {[i \in 1 .. h |-> IF i = short THEN cut ELSE w] :
        h \in 1 .. rows, w \in 1 .. cols, short \in 1 .. rows, cut \in 1 .. cols}

ScanGrids(rows, cols) ==
    {Letters(lens, a, b, c, hole) :
        lens \in ScanShapes(rows, cols),
        a \in Slopes, b \in Slopes, c \in 0 .. Len(word) - 1, hole \in 0 .. rows}

InitScan ==
    /\ grid \in ScanGrids(ScanRows, ScanCols)
    /\ call = NoCall
    /\ scan = [k |-> 0, occurrences |-> 0, pc |-> "scanning", reads |-> {}]
    /\ input = <<>>
    /\ lab = NoLab
    /\ pc = "idle"
    /\ trail = NoTrail

\* One turn of the loops of count_xmas_occurrences: occurrences +=
\* self.xmas_occurrences_from(x, y) at the next cell; a panic ends the program.
ScanCell ==
    /\ scan.pc = "scanning"
    /\ scan.k < Len(scan_order(grid, 0))
    /\ LET at == scan_order(grid, 0)[scan.k + 1]
           r == xmas_occurrences_from(grid, at[1], at[2])
       IN  /\ scan' = [k |-> scan.k + 1,
                       occurrences |-> scan.occurrences + r.occurrences,
                       pc |-> IF r.panic THEN "panic" ELSE "scanning",
                       reads |-> r.reads]
           /\ call' = [op |-> "xmas_occurrences_from", direction |-> Up,
                       x |-> at[1], y |-> at[2], diagonals |-> TRUE,
                       result |-> IF r.panic THEN None ELSE Some(r.occurrences)]
    /\ UNCHANGED <<grid, input, lab, pc, trail>>

\* The loops are over: count_xmas_occurrences returns the total.
ScanReturn ==
    /\ scan.pc = "scanning"
    /\ scan.k = Len(scan_order(grid, 0))
    /\ scan' = [scan EXCEPT !.pc = "done"]
    /\ call' = [op |-> "count_xmas_occurrences", direction |-> Up, x |-> 0, y |-> 0,
                diagonals |-> TRUE, result |-> Some(scan.occurrences)]
    /\ UNCHANGED <<grid, input, lab, pc, trail>>

NextScan == ScanCell \/ ScanReturn

SpecScan == InitScan /\ [][NextScan]_vars

\* ------------------------------------------------------------------ C4, C5

\* The number of directions in which the word lies on the grid from <<x, y>>.
Spelled(g, x, y, d) ==
    \A n \in 0 .. Len(word) - 1 :
        /\ InGrid(g, Ahead(x, y, d, n))
        /\ cell(g, Ahead(x, y, d, n)[1], Ahead(x, y, d, n)[2]) = word[n + 1]

Occurrences(g, x, y) == Cardinality({d \in Direction : Spelled(g, x, y, d)})

\* C4: for every grid cell <<x, y>>, xmas_occurrences_from(x, y) returns the
\* number of the 8 directions in which the four cells from <<x, y>> on lie
\* inside the grid and spell X, M, A, S.
C4_OccurrencesFromCell ==
    call.op = "xmas_occurrences_from"
        => call.result = Some(Occurrences(grid, call.x, call.y))

\* C5: during a scan of any grid, ragged ones included, every cell the scanner
\* reads exists: its row index is below the row count and its column index
\* below the length of its row.
C5_ReadsInGrid ==
    \A p \in scan.reads : InGrid(grid, p)

\* C4 and C5 on the grids whose rows all have one length.
RectangularScanIsExact ==
    IsRectangular(grid) => C4_OccurrencesFromCell /\ C5_ReadsInGrid /\ scan.pc # "panic"

\* ------------------------------------------------------------------ day06

GuardState_new_swapped(x, y) == [direction |-> Up, position |-> <<y, x>>, has_left |-> FALSE]

GuardState_new(x, y) == [direction |-> Up, position |-> <<x, y>>, has_left |-> FALSE]

rotate_half_turn(self) ==
    [self EXCEPT !.direction =
        CASE self.direction = Up -> Down
          [] self.direction = Down -> Up
          [] self.direction = Left -> Right
          [] self.direction = Right -> Left
          [] OTHER -> "unreachable"]

rotate_eighth_turn(self) ==
    [self EXCEPT !.direction =
        CASE self.direction = Up -> UpperRight
          [] self.direction = Down -> LowerLeft
          [] self.direction = Left -> UpperLeft
          [] self.direction = Right -> LowerRight
          [] OTHER -> "unreachable"]

rotate_counterclockwise(self) ==
    [self EXCEPT !.direction =
        CASE self.direction = Up -> Left
          [] self.direction = Down -> Right
          [] self.direction = Left -> Down
          [] self.direction = Right -> Up
          [] OTHER -> "unreachable"]

\* A heading outside the four cardinal ones runs into unreachable!(), a panic.
rotate(self) ==
    [self EXCEPT !.direction =
        CASE self.direction = Up -> Right
          [] self.direction = Down -> Left
          [] self.direction = Left -> Up
          [] self.direction = Right -> Down
          [] OTHER -> "unreachable"]

RECURSIVE sum(_)
sum(ns) == IF ns = <<>> THEN 0 ELSE Head(ns) + sum(Tail(ns))

visited_positions(self) ==
    sum([i \in 1 .. Len(self.visited) |->
            sum([j \in 1 .. Len(self.visited[i]) |-> IF self.visited[i][j] THEN 1 ELSE 0])])

\* The guard found by the loops of try_from over the cells still to read: every
\* '^' overwrites the guard found before it.
RECURSIVE find_guard(_, _, _)
find_guard(value, todo, found) ==
    IF todo = <<>> THEN found
    ELSE LET x == Head(todo)[1]
             y == Head(todo)[2]
         IN  find_guard(value, Tail(todo),
                        IF cell(value, x, y) = "^" THEN Some(GuardState_new(x, y)) ELSE found)

try_from(value) ==
    LET chars == {cell(value, p[1], p[2]) : p \in {scan_order(value, 0)[k] :
                                                      k \in 1 .. Len(scan_order(value, 0))}}
        guard == find_guard(value, scan_order(value, 0), None)
    IN  IF chars \ {".", "#", "^"} # {}
        THEN [ok |-> FALSE, error |-> "Invalid character in grid"]
        ELSE IF guard = None
        THEN [ok |-> FALSE, error |-> "Guard not found"]
        ELSE [ok |-> TRUE,
              state |-> [parsed |-> TRUE,
                         obstacles |-> [i \in 1 .. Len(value) |->
                                           [j \in 1 .. Len(value[i]) |-> value[i][j] = "#"]],
                         visited |-> [i \in 1 .. Len(value) |->
                                         [j \in 1 .. Len(value[i]) |-> value[i][j] = "^"]],
                         guard |-> guard[1]]]

mark_only(visited, position) ==
    [i \in 1 .. Len(visited) |->
        [j \in 1 .. Len(visited[i]) |-> <<j - 1, i - 1>> = position]]

mark_nothing(visited, position) == visited

\* visited[guard.position.1][guard.position.0] = true
mark(visited, position) ==
    [visited EXCEPT ![position[2] + 1][position[1] + 1] = TRUE]

\* The loop of advance: what it leaves in visited and guard, whether an index
\* was out of range (a panic), and the cells the guard moved onto.  The next
\* turn of the loop is entered with the values of visited, guard and moved
\* (v, g, m), not with the expressions that compute them.
RECURSIVE advance_loop(_, _, _, _)
advance_loop(obstacles, visited, guard, moved) ==
    IF ~cell_get(visited, guard.position[1], guard.position[2])
    THEN [panic |-> TRUE, visited |-> visited, guard |-> guard, moved |-> moved]
    ELSE LET marked == mark(visited, guard.position)
             neighbor == neighbor_in_direction(obstacles, guard.direction,
                                               guard.position[1], guard.position[2])
         IN  IF neighbor # None
             THEN LET x == neighbor[1].position[1]
                      y == neighbor[1].position[2]
                  IN  IF ~cell_get(obstacles, x, y)
                      THEN [panic |-> TRUE, visited |-> marked, guard |-> guard,
                            moved |-> moved]
                      ELSE IF cell(obstacles, x, y)
                      THEN [panic |-> rotate(guard).direction = "unreachable",
                            visited |-> marked, guard |-> rotate(guard), moved |-> moved]
                      ELSE CHOOSE r \in {advance_loop(obstacles, v, g, m) :
                                            v \in {marked},
                                            g \in {[guard EXCEPT !.position = <<x, y>>]},
                                            m \in {moved \cup {<<x, y>>}}} : TRUE
             ELSE [panic |-> FALSE, visited |-> marked,
                   guard |-> [guard EXCEPT !.has_left = TRUE], moved |-> moved]

advance_without_check(self) ==
    LET r == advance_loop(self.obstacles, self.visited, self.guard, {})
    IN  [ok |-> ~r.panic, panic |-> r.panic, moved |-> r.moved,
         state |-> [parsed |-> TRUE, obstacles |-> self.obstacles,
                    visited |-> r.visited, guard |-> r.guard]]

advance(self) ==
    IF self.guard.has_left
    THEN [ok |-> FALSE, panic |-> FALSE, error |-> "Guard has left"]
    ELSE LET r == advance_loop(self.obstacles, self.visited, self.guard, {})
         IN  [ok |-> ~r.panic, panic |-> r.panic, moved |-> r.moved,
              state |-> [parsed |-> TRUE, obstacles |-> self.obstacles,
                         visited |-> r.visited, guard |-> r.guard]]

keeps_going_while_up(state) == ~state.guard.has_left /\ state.guard.direction = Up

\* while !state.guard.has_left
keeps_going(state) == ~state.guard.has_left

\* ------------------------------------------------------------------ day06 inputs

\* The sets of at most k elements of S.
RECURSIVE UpTo(_, _)
UpTo(S, k) ==
    IF k = 0 THEN {{}}
    ELSE LET smaller == UpTo(S, k - 1) IN smaller \cup {A \cup {e} : A \in smaller, e \in S}

Lines(lens, starts, obstacles, others) ==
    [i \in 1 .. Len(lens) |->
        [j \in 1 .. lens[i] |->
            CASE <<j - 1, i - 1>> \in starts -> "^"
              [] <<j - 1, i - 1>> \in obstacles -> "#"
              [] <<j - 1, i - 1>> \in others -> "o"
              [] OTHER -> "."]]

LabRectangles(rows, cols) == {[i \in 1 .. h |-> w] : h \in 1 .. rows, w \in 1 .. cols}

\* Rectangles with one row a cell short.
LabRagged(rows, cols) ==
    {[i \in 1 .. Len(lens) |-> IF i = short THEN lens[i] - 1 ELSE lens[i]] :
        lens \in {l \in LabRectangles(rows, cols) : l[1] > 1}, short \in 1 .. rows}

Cells(lens) == Positions(Blank(lens, 0))

\* Maps of one shape with one '^' and at most `most` '#' anywhere.
Maps(lens, most) ==
    {Lines(lens, {s}, O \ {s}, {}) : O \in UpTo(Cells(lens), most), s \in Cells(lens)}

\* Maps of one rectangle with one '^' and '#' on any of the four cells next to
\* it, up to the guard walled in on all four sides.
Boxes(lens) ==
    {Lines(lens, {s}, {Ahead(s[1], s[2], d, 1) : d \in D}, {}) :
        s \in Cells(lens), D \in SUBSET {Up, Down, Left, Right}}

\* Maps of one rectangle with one '^' on a circuit: the guard walks the sides
\* of the rectangle of corners <<x0, y0>> and <<x1, y1>>, turned at each corner
\* by a '#' just beyond it.
Circuits(lens) ==
    {Lines(lens, {<<x0, y1>>},
           {<<x0, y0 - 1>>, <<x1 + 1, y0>>, <<x1, y1 + 1>>, <<x0 - 1, y1>>}, {}) :
        <<x0, x1, y0, y1>> \in
            {q \in (1 .. lens[1]) \X (1 .. lens[1]) \X (1 .. Len(lens)) \X (1 .. Len(lens)) :
                /\ q[1] <= q[2] /\ q[3] <= q[4]
                /\ <<q[2] + 1, q[3]>> \in Cells(lens)
                /\ <<q[2], q[4] + 1>> \in Cells(lens)}}

\* Obstacle-free maps of one rectangle with no '^', with two, or with one and
\* a character that is none of '.', '#', '^'.
OddMaps(lens) ==
    {Lines(lens, MN[1], {}, MN[2]) :
        MN \in {q \in UpTo(Cells(lens), 2) \X UpTo(Cells(lens), 1) :
                   /\ q[1] \cap q[2] = {}
                   /\ \/ q[2] = {} /\ Cardinality(q[1]) # 1
                      \/ q[2] # {} /\ Cardinality(q[1]) = 1}}

Markers(value) == {p \in Positions(value) : cell(value, p[1], p[2]) = "^"}

\* The input files main may find on one shape: when it is a rectangle, maps
\* with at most `most` obstacles anywhere, or walled in, or on a circuit, or
\* with an odd number of markers; when it is ragged, maps with at most one
\* obstacle.
Inputs(lens, most) ==
    IF IsRectangular(Blank(lens, 0))
    THEN Maps(lens, most) \cup Boxes(lens) \cup Circuits(lens) \cup OddMaps(lens)
    ELSE Maps(lens, 1)

InitGuard ==
    /\ grid = <<>>
    /\ call = NoCall
    /\ scan = NoScan
    /\ input = <<>>
    /\ lab = NoLab
    /\ pc = "init"
    /\ trail = NoTrail

\* main: util::init()?, which is read_lines: the lines of the input file, or
\* an error when it has none.
ReadLines ==
    /\ pc = "init"
    /\ \/ input' = <<>> /\ pc' = "no_input"
       \/ \E lens \in LabRectangles(LabRows, LabCols) \cup LabRagged(LabRows, LabCols) :
              \E lines \in Inputs(lens, MaxObstacles) :
                  input' = lines /\ pc' = "start"
    /\ call' = [NoCall EXCEPT !.op = "read_lines"]
    /\ UNCHANGED <<grid, scan, lab, trail>>

\* main: LabState::try_from(input)?, then into advance_until_guard_leaves
Parse ==
    /\ pc = "start"
    /\ \E r \in {try_from(input)} :
           IF r.ok
           THEN /\ lab' = r.state
                /\ pc' = "loop"
                /\ trail' = [occupied |-> {r.state.guard.position},
                             crossed |-> {},
                             ended |-> {[position |-> r.state.guard.position,
                                         direction |-> r.state.guard.direction]},
                             repeated |-> FALSE]
                /\ call' = [NoCall EXCEPT !.op = "try_from"]
           ELSE /\ pc' = "parse_error"
                /\ call' = [NoCall EXCEPT !.op = "try_from", !.result = Some(r.error)]
                /\ UNCHANGED <<lab, trail>>
    /\ UNCHANGED <<grid, scan, input>>

\* One turn of the loop of advance_until_guard_leaves: state = state.advance()?
AdvanceGuard ==
    /\ pc = "loop"
    /\ keeps_going(lab)
    /\ \E r \in {advance(lab)} :
       LET now == [position |-> r.state.guard.position,
                   direction |-> r.state.guard.direction]
       IN  IF r.panic
           THEN /\ pc' = "panic"
                /\ UNCHANGED <<lab, trail>>
           ELSE /\ pc' = "loop"
                /\ lab' = r.state
                /\ trail' = [occupied |-> trail.occupied \cup r.moved,
                             crossed |-> trail.crossed \cup (trail.occupied \cap r.moved),
                             ended |-> trail.ended \cup {now},
                             repeated |-> ~r.state.guard.has_left /\ now \in trail.ended]
    /\ call' = [NoCall EXCEPT !.op = "advance"]
    /\ UNCHANGED <<grid, scan, input>>

\* The loop is over: Ok(state), and main prints lab_state.visited_positions().
Leave ==
    /\ pc = "loop"
    /\ ~keeps_going(lab)
    /\ pc' = "done"
    /\ call' = [NoCall EXCEPT !.op = "visited_positions",
                              !.result = Some(visited_positions(lab))]
    /\ UNCHANGED <<grid, scan, input, lab, trail>>

NextGuard == ReadLines \/ Parse \/ AdvanceGuard \/ Leave

SpecGuard == InitGuard /\ [][NextGuard]_vars

\* Once the input is read main runs to its end or for ever: a step it can take
\* is taken.
FairSpecGuard == SpecGuard /\ WF_vars(Parse \/ AdvanceGuard \/ Leave)

\* A caller of LabState other than main (the tests of the module are one):
\* state.advance() at any time, has_left or not.  advance takes self by value:
\* after Err the caller holds no state.
CallAdvance ==
    /\ pc = "loop"
    /\ \E r \in {advance(lab)} :
       IF r.panic
       THEN /\ pc' = "panic"
            /\ call' = [NoCall EXCEPT !.op = "advance"]
            /\ UNCHANGED <<lab, trail>>
       ELSE IF ~r.ok
       THEN /\ pc' = "advance_error"
            /\ lab' = NoLab
            /\ call' = [NoCall EXCEPT !.op = "advance", !.result = Some(r.error)]
            /\ UNCHANGED trail
       ELSE LET now == [position |-> r.state.guard.position,
                        direction |-> r.state.guard.direction]
            IN  /\ pc' = "loop"
                /\ lab' = r.state
                /\ trail' = [occupied |-> trail.occupied \cup r.moved,
                             crossed |-> trail.crossed \cup (trail.occupied \cap r.moved),
                             ended |-> trail.ended \cup {now},
                             repeated |-> ~r.state.guard.has_left /\ now \in trail.ended]
                /\ call' = [NoCall EXCEPT !.op = "advance"]
    /\ UNCHANGED <<grid, scan, input>>

NextLab == ReadLines \/ Parse \/ CallAdvance

SpecLab == InitGuard /\ [][NextLab]_vars

\* ------------------------------------------------------------------ C6 .. C10

HasLeft == lab.parsed /\ lab.guard.has_left

Obstacles(value) == {p \in Positions(value) : cell(value, p[1], p[2]) = "#"}

Visited == {p \in Positions(lab.visited) : cell(lab.visited, p[1], p[2])}

\* C6: driving the simulation to completion always terminates: from every
\* parsed initial state the Left state is eventually reached.
C6_AlwaysLeaves == (pc = "loop") ~> HasLeft

\* C6 as amended: from every parsed initial state the drive reaches Left, or
\* the guard ends an advance on a position and heading it has ended an earlier
\* advance on (a cycle, which then runs for ever), or an index is out of range
\* (a panic, ragged grids only); the loop does not stop otherwise.
C6_LeavesOrCycles == (pc = "loop") ~> (HasLeft \/ trail.repeated \/ pc = "panic")

\* The guard is back where an earlier advance ended, on a circuit of several cells.
C6_Witness ==
    /\ pc = "loop"
    /\ trail.repeated
    /\ Cardinality(trail.occupied) >= 2

\* C7: for an input with exactly one start marker, when the simulation has
\* reached Left, visited_positions is the number of distinct cells the guard
\* stood on (the start cell and every cell it moved onto), and the visited
\* cells are exactly those.
C7_VisitedIsOccupied ==
    (HasLeft /\ Cardinality(Markers(input)) = 1)
        => /\ visited_positions(lab) = Cardinality(trail.occupied)
           /\ Visited = trail.occupied

\* The guard has left after turning back onto a cell it had stood on before.
C7_Witness ==
    /\ HasLeft
    /\ Cardinality(Markers(input)) = 1
    /\ trail.crossed # {}
    /\ visited_positions(lab) >= 2

\* C8: try_from fails when the input holds no '^' and when it holds more than
\* one; when it succeeds the input holds exactly one '^', which is the guard's
\* position, with heading Up.
C8_ParseNeedsOneMarker ==
    /\ (pc \notin {"init", "no_input", "start"} /\ Cardinality(Markers(input)) # 1)
           => pc = "parse_error"
    /\ (pc = "loop" /\ call.op = "try_from")
           => /\ Markers(input) = {lab.guard.position}
              /\ lab.guard.direction = Up
              /\ ~lab.guard.has_left

\* The guard stands on a cell whose four cardinal neighbours are all obstacles.
Enclosed ==
    /\ Cardinality(Markers(input)) = 1
    /\ \A s \in Markers(input) :
           {Ahead(s[1], s[2], d, 1) : d \in {Up, Down, Left, Right}} \subseteq Obstacles(input)

Clockwise(d) ==
    CASE d = Up -> Right
      [] d = Right -> Down
      [] d = Down -> Left
      [] d = Left -> Up

\* C9: when the start cell's four cardinal neighbours are all obstacles, in
\* every reachable state the guard is on its start cell and has not left, the
\* visited total is exactly 1, and every advance turns the heading to the next
\* of Up, Right, Down, Left without moving the guard.
C9_EnclosedRotates ==
    /\ []((Enclosed /\ pc \notin {"init", "start"})
             => /\ pc = "loop"
                /\ Markers(input) = {lab.guard.position}
                /\ lab.guard.direction \in {Up, Right, Down, Left}
                /\ ~lab.guard.has_left
                /\ visited_positions(lab) = 1)
    /\ [][(Enclosed /\ pc = "loop")
             => /\ lab'.guard.direction = Clockwise(lab.guard.direction)
                /\ lab'.guard.position = lab.guard.position]_vars

\* The third advance has turned the enclosed guard to Left, its fourth heading.
C9_Witness ==
    /\ Enclosed
    /\ pc = "loop"
    /\ lab.guard.direction = Left

\* An obstacle-free rectangle with one start marker.
Clear ==
    /\ IsRectangular(input)
    /\ Obstacles(input) = {}
    /\ Cardinality(Markers(input)) = 1
    /\ \A p \in Positions(input) : cell(input, p[1], p[2]) \in {".", "^"}

\* C10: on a rectangular grid with no obstacles and one start marker at row r,
\* the simulation terminates in the Left state (the first advance reaches it)
\* with exactly r + 1 visited cells: the start cell and the cells above it.
C10_ClearColumn ==
    (Clear /\ pc \notin {"init", "start"}) =>
        \A s \in Markers(input) :
            /\ pc \in {"loop", "done"}
            /\ (pc = "loop" /\ ~HasLeft) => call.op = "try_from"
            /\ HasLeft => /\ visited_positions(lab) = s[2] + 1
                          /\ Visited = {<<s[1], y>> : y \in 0 .. s[2]}
            /\ pc = "done" => /\ HasLeft
                              /\ call.result = Some(s[2] + 1)

\* The guard started in the third row and main has printed 3.
C10_Witness ==
    /\ Clear
    /\ pc = "done"
    /\ \E s \in Markers(input) : s[2] = 2
    /\ call.result = Some(3)

\* ------------------------------------------------------------------ day07

\* &numbers[..numbers.len() - 1]
Front(numbers) == SubSeq(numbers, 1, Len(numbers) - 1)

\* CalibrationEquation::inner_is_valid over usize: test.checked_sub(curr) is
\* Some exactly when test >= curr; test % curr panics when curr is 0, after the
\* addition branch has been evaluated and before the multiplication branch is.
RECURSIVE inner_is_valid(_, _)
inner_is_valid(test, numbers) ==
    IF numbers = <<>> THEN [panic |-> FALSE, valid |-> FALSE]
    ELSE IF test = numbers[1] THEN [panic |-> FALSE, valid |-> TRUE]
    ELSE LET curr == numbers[Len(numbers)]
             remaining == Front(numbers)
             addition == IF test >= curr THEN inner_is_valid(test - curr, remaining)
                         ELSE [panic |-> FALSE, valid |-> FALSE]
         IN  IF addition.panic \/ curr = 0 THEN [panic |-> TRUE, valid |-> FALSE]
             ELSE LET multiplication ==
                          IF test % curr = 0 THEN inner_is_valid(test \div curr, remaining)
                          ELSE [panic |-> FALSE, valid |-> FALSE]
                  IN  [panic |-> multiplication.panic,
                       valid |-> ~multiplication.panic
                                    /\ (addition.valid \/ multiplication.valid)]

is_valid(self) == inner_is_valid(self.test, self.numbers)

\* The equations from_str can build: a test value and a list, empty or not, of
\* numbers, zero included.
Equations(most_test, most_number, most_numbers) ==
    [test : 0 .. most_test,
     numbers : UNION {[1 .. n -> 0 .. most_number] : n \in 0 .. most_numbers}]

InitCalibration ==
    /\ grid = <<>>
    /\ call = NoCall
    /\ scan = NoScan
    /\ input = <<>>
    /\ lab = NoLab
    /\ pc = "idle"
    /\ trail = NoTrail

IsValid ==
    /\ call.op = "none"
    /\ \E equation \in Equations(MaxTest, MaxNumber, MaxNumbers) :
           \E r \in {is_valid(equation)} :
               call' = [op |-> "is_valid", direction |-> Up, x |-> 0, y |-> 0,
                        diagonals |-> FALSE, equation |-> equation,
                        result |-> IF r.panic THEN None ELSE Some(r.valid)]
    /\ UNCHANGED <<grid, scan, input, lab, pc, trail>>

NextCalibration == IsValid

SpecCalibration == InitCalibration /\ [][NextCalibration]_vars

\* ------------------------------------------------------------------ day03

Do == [kind |-> "Do"]
DoNot == [kind |-> "DoNot"]
Multiplication(x, y) == [kind |-> "Multiplication", x |-> x, y |-> y]

\* The for loop of apply over the instructions still to run.
RECURSIVE apply_loop(_, _, _, _)
apply_loop(todo, unconditional, enabled, result) ==
    IF todo = <<>> THEN result
    ELSE LET instruction == Head(todo)
         IN  CASE instruction.kind = "Do" ->
                    apply_loop(Tail(todo), unconditional, TRUE, result)
               [] instruction.kind = "DoNot" ->
                    apply_loop(Tail(todo), unconditional, FALSE, result)
               [] instruction.kind = "Multiplication" ->
                    apply_loop(Tail(todo), unconditional, enabled,
                               IF unconditional \/ enabled
                               THEN result + instruction.x * instruction.y
                               ELSE result)

apply_initially_disabled(self, unconditional) == apply_loop(self, unconditional, FALSE, 0)

apply(self, unconditional) == apply_loop(self, unconditional, TRUE, 0)

apply_unconditionally(self) == apply(self, TRUE)

apply_conditionally(self) == apply(self, FALSE)

\* The instructions try_from can build, with products that tell the
\* multiplications of a sequence apart: 1, 2, 4 and 8.
Instruction == {Do, DoNot, Multiplication(1, 1), Multiplication(1, 2), Multiplication(2, 2),
                Multiplication(2, 4)}

Instructions(most) == UNION {[1 .. n -> Instruction] : n \in 0 .. most}

InitApply ==
    /\ grid = <<>>
    /\ call = NoCall
    /\ scan = NoScan
    /\ input = <<>>
    /\ lab = NoLab
    /\ pc = "idle"
    /\ trail = NoTrail

ApplyUnconditionally ==
    /\ call.op = "none"
    /\ \E instructions \in Instructions(MaxInstructions) :
           call' = [op |-> "apply_unconditionally", direction |-> Up, x |-> 0, y |-> 0,
                    diagonals |-> FALSE, instructions |-> instructions,
                    result |-> Some(apply_unconditionally(instructions))]
    /\ UNCHANGED <<grid, scan, input, lab, pc, trail>>

ApplyConditionally ==
    /\ call.op = "none"
    /\ \E instructions \in Instructions(MaxInstructions) :
           call' = [op |-> "apply_conditionally", direction |-> Up, x |-> 0, y |-> 0,
                    diagonals |-> FALSE, instructions |-> instructions,
                    result |-> Some(apply_conditionally(instructions))]
    /\ UNCHANGED <<grid, scan, input, lab, pc, trail>>

NextApply == ApplyUnconditionally \/ ApplyConditionally

SpecApply == InitApply /\ [][NextApply]_vars

\* ------------------------------------------------------------------ C11 .. C20

\* C11: advance on a state whose guard has left fails with an error and takes
\* no simulation step: the call returns the error "Guard has left" and no
\* state, so nothing is marked, moved or rotated.
C11_AdvanceAfterLeftFails ==
    /\ [](HasLeft => advance(lab) = [ok |-> FALSE, panic |-> FALSE, error |-> "Guard has left"])
    /\ [][(HasLeft /\ call'.op = "advance")
             => /\ pc' = "advance_error"
                /\ call'.result = Some("Guard has left")
                /\ lab' = NoLab
                /\ trail' = trail]_vars

\* advance has been called on a guard that had left, after a walk of several cells.
C11_Witness ==
    /\ pc = "advance_error"
    /\ call.result = Some("Guard has left")
    /\ Cardinality(trail.occupied) >= 2

Opposite(d) ==
    CASE d = Up -> Down
      [] d = Down -> Up
      [] d = Left -> Right
      [] d = Right -> Left
      [] d = UpperLeft -> LowerRight
      [] d = LowerRight -> UpperLeft
      [] d = UpperRight -> LowerLeft
      [] d = LowerLeft -> UpperRight

\* The step back: neighbor_in_direction in the opposite direction from the
\* Neighbor the recorded call returned.
StepBack ==
    neighbor_in_direction(grid, Opposite(call.direction),
                          call.result[1].position[1], call.result[1].position[2])

\* C12: when neighbor_in_direction from an in-bounds position p in direction d
\* returns a Neighbor q, and neighbor_in_direction from q in the opposite
\* direction returns a Neighbor too, that second Neighbor is at p.
C12_RoundTrip ==
    (call.op = "neighbor_in_direction" /\ call.result # None /\ StepBack # None)
        => StepBack[1].position = <<call.x, call.y>>

\* A diagonal step from the inside of a ragged grid, and back.
C12_Witness ==
    /\ call.op = "neighbor_in_direction"
    /\ call.direction = LowerLeft
    /\ ~IsRectangular(grid)
    /\ call.result # None
    /\ StepBack # None
    /\ StepBack[1].position = <<call.x, call.y>>

IsCardinal(neighbor) == neighbor.direction \in {Up, Down, Left, Right}

\* C14: for every grid and in-bounds position, the Neighbors of
\* neighbors(grid, p, false) are exactly the Neighbors of neighbors(grid, p, true)
\* whose direction is Up, Down, Left or Right (in the same order).
C14_CardinalsOfAll ==
    (call.op = "neighbors") =>
        /\ neighbors(grid, call.x, call.y, FALSE)
               = SelectSeq(neighbors(grid, call.x, call.y, TRUE), IsCardinal)
        /\ call.diagonals => SelectSeq(call.result, IsCardinal)
                                 = neighbors(grid, call.x, call.y, FALSE)
        /\ ~call.diagonals => call.result
                                  = SelectSeq(neighbors(grid, call.x, call.y, TRUE), IsCardinal)

\* An inside cell: eight Neighbors with the diagonals, four of them cardinal.
C14_Witness ==
    /\ call.op = "neighbors"
    /\ call.diagonals
    /\ Len(call.result) = 8
    /\ Len(neighbors(grid, call.x, call.y, FALSE)) = 4

\* xmas_occurrences_from with its local `word` (line 13) set to a word of one
\* letter instead of "XMAS": the function has no other way to search for a
\* shorter word.
OneLetterWords == {<<"X">>, <<"M">>}

InitWord ==
    /\ grid \in ScanGrids(MaxRows, MaxCols)
    /\ call = NoCall
    /\ scan = NoScan
    /\ input = <<>>
    /\ lab = NoLab
    /\ pc = "idle"
    /\ trail = NoTrail

OccurrencesFrom ==
    /\ call.op = "none"
    /\ \E p \in Positions(grid), target \in OneLetterWords \cup {word} :
           LET r == occurrences_from(target, grid, p[1], p[2])
           IN  call' = [op |-> "occurrences_from", direction |-> Up, x |-> p[1], y |-> p[2],
                        diagonals |-> TRUE, word |-> target,
                        result |-> IF r.panic THEN None ELSE Some(r.occurrences)]
    /\ UNCHANGED <<grid, scan, input, lab, pc, trail>>

NextWord == OccurrencesFrom

SpecWord == InitWord /\ [][NextWord]_vars

OneLetterOncePerNeighbor ==
    (call.op = "occurrences_from" /\ Len(call.word) = 1)
        => call.result = Some(IF cell(grid, call.x, call.y) = call.word[1]
                              THEN Len(neighbors(grid, call.x, call.y, TRUE)) ELSE 0)

\* The values that '+' and '*' between consecutive numbers can give, evaluated
\* left to right with all the numbers.
RECURSIVE Values(_)
Values(numbers) ==
    IF Len(numbers) = 1 THEN {numbers[1]}
    ELSE LET last == numbers[Len(numbers)]
         IN  {v + last : v \in Values(Front(numbers))}
                 \cup {v * last : v \in Values(Front(numbers))}

Positive(numbers) == numbers # <<>> /\ \A i \in 1 .. Len(numbers) : numbers[i] > 0

\* C15: for every test value and non-empty list of positive numbers, is_valid
\* returns true if and only if some choice of '+' or '*' between consecutive
\* numbers, evaluated left to right using all the numbers, gives the test value.
C15_ValidIffSomeChoice ==
    (call.op = "is_valid" /\ Positive(call.equation.numbers))
        => call.result = Some(call.equation.test \in Values(call.equation.numbers))

\* The indices of the Multiplication instructions, and of those whose most
\* recent preceding Do or DoNot is a Do, or that have none before them.
Multiplications(instructions) ==
    {i \in 1 .. Len(instructions) : instructions[i].kind = "Multiplication"}

Switches(instructions, i) == {j \in 1 .. i - 1 : instructions[j].kind \in {"Do", "DoNot"}}

EnabledAt(instructions, i) ==
    \/ Switches(instructions, i) = {}
    \/ \E j \in Switches(instructions, i) :
           /\ \A k \in Switches(instructions, i) : k <= j
           /\ instructions[j].kind = "Do"

RECURSIVE SumOfProducts(_, _)
SumOfProducts(instructions, indices) ==
    IF indices = {} THEN 0
    ELSE LET i == CHOOSE k \in indices : TRUE
         IN  instructions[i].x * instructions[i].y
                 + SumOfProducts(instructions, indices \ {i})

\* C16: apply_conditionally returns the sum of x * y over exactly the
\* Multiplication instructions whose most recent preceding Do or DoNot is a Do
\* or that have none before them; apply_unconditionally returns the sum over
\* all the Multiplication instructions.
C16_ApplySums ==
    /\ call.op = "apply_conditionally"
           => call.result = Some(SumOfProducts(call.instructions,
                                     {i \in Multiplications(call.instructions) :
                                         EnabledAt(call.instructions, i)}))
    /\ call.op = "apply_unconditionally"
           => call.result = Some(SumOfProducts(call.instructions,
                                               Multiplications(call.instructions)))

\* A multiplication switched off and one switched on again.
C16_Witness ==
    /\ call.op = "apply_conditionally"
    /\ call.instructions = <<DoNot, Multiplication(1, 2), Do, Multiplication(2, 2)>>
    /\ call.result = Some(4)

\* The cell one step ahead of the guard of a state, and whether it is an obstacle.
AheadOf(guard) == Ahead(guard.position[1], guard.position[2], guard.direction, 1)

Blocked(state) ==
    /\ InGrid(state.obstacles, AheadOf(state.guard))
    /\ cell(state.obstacles, AheadOf(state.guard)[1], AheadOf(state.guard)[2])

IsVisited(state, p) == InGrid(state.visited, p) /\ cell(state.visited, p[1], p[2])

\* C17: when the cell one step ahead of the guard in its heading is an
\* obstacle, the step turns the heading one quarter turn clockwise and leaves
\* the position unchanged, the guard's cell marked visited and has_left false.
C17_ObstacleRotates ==
    [][(pc = "loop" /\ ~HasLeft /\ Blocked(lab) /\ call'.op = "advance")
          => /\ pc' = "loop"
             /\ lab'.guard.direction = Clockwise(lab.guard.direction)
             /\ lab'.guard.position = lab.guard.position
             /\ IsVisited(lab', lab.guard.position)
             /\ ~lab'.guard.has_left
             /\ lab'.visited = lab.visited
             /\ lab'.obstacles = lab.obstacles]_vars

\* The first advance found the cell above the start blocked and turned the
\* guard to Right on the spot.
C17_Witness ==
    /\ pc = "loop"
    /\ call.op = "advance"
    /\ ~HasLeft
    /\ lab.guard.direction = Right
    /\ trail.occupied = {lab.guard.position}
    /\ Cardinality(trail.ended) = 2
    /\ Blocked([lab EXCEPT !.guard.direction = Up])

\* The outcome of one advance from `before` to `after`: the guard ran n cells
\* along its heading h, every cell of the run is marked visited, and it stopped
\* either leaving, on the last cell of the grid along h with heading h, or
\* before an obstacle, turned to the clockwise successor of h.
RanAhead(before, after, n) ==
    LET h == before.guard.direction
        p == before.guard.position
    IN  /\ after.guard.position = Ahead(p[1], p[2], h, n)
        /\ \A k \in 0 .. n : IsVisited(after, Ahead(p[1], p[2], h, k))
        /\ \/ /\ after.guard.has_left
              /\ after.guard.direction = h
              /\ ~InGrid(after.obstacles, Ahead(p[1], p[2], h, n + 1))
           \/ /\ ~after.guard.has_left
              /\ Blocked([after EXCEPT !.guard.direction = h])
              /\ after.guard.direction = Clockwise(h)

\* The longest run a grid has room for.
Reach(value) == Len(value) + Cardinality(Positions(value))

\* C18: a single advance from a state that has not left returns a state, in
\* which the guard has run forward in its heading h to where it was forced to
\* stop: has_left with the guard on the last in-grid cell of the run and
\* heading h, or not has_left with an obstacle ahead in direction h and the
\* heading turned clockwise; every cell of the run is marked visited.
C18_AdvanceRunsAhead ==
    [][(pc = "loop" /\ ~HasLeft /\ call'.op = "advance")
          => /\ pc' = "loop"
             /\ \E n \in 0 .. Reach(input) : RanAhead(lab, lab', n)]_vars

\* C18 for the calls that return: whenever advance returns a state it is as
\* C18 says.
ReturnedAdvanceRanAhead ==
    [][(pc = "loop" /\ ~HasLeft /\ call'.op = "advance" /\ pc' = "loop")
          => \E n \in 0 .. Reach(input) : RanAhead(lab, lab', n)]_vars

\* C18 on the maps whose lines all have one length.
RectangularAdvanceRunsAhead ==
    [][(pc = "loop" /\ ~HasLeft /\ call'.op = "advance" /\ IsRectangular(input))
          => /\ pc' = "loop"
             /\ \E n \in 0 .. Reach(input) : RanAhead(lab, lab', n)]_vars

\* C19: every advance leaves the obstacle layer as it was at construction and
\* never clears a visited mark: the layers keep their shape, the obstacles are
\* those of the input, and a cell once visited stays visited.
C19_LayersOnlyGainVisits ==
    /\ [](lab.parsed => /\ Positions(lab.obstacles) = Positions(input)
                        /\ Positions(lab.visited) = Positions(input)
                        /\ \A p \in Positions(input) :
                               cell(lab.obstacles, p[1], p[2]) <=> p \in Obstacles(input))
    /\ [][(lab.parsed /\ lab'.parsed)
             => /\ lab'.obstacles = lab.obstacles
                /\ \A p \in Positions(input) : IsVisited(lab, p) => IsVisited(lab', p)]_vars

\* A third advance has added to the cells the first two marked.
C19_Witness ==
    /\ pc = "loop"
    /\ call.op = "advance"
    /\ Cardinality(trail.ended) >= 4
    /\ Cardinality(Visited) >= 4
    /\ Obstacles(input) # {}

\* C20: in every state reached from a parsed rectangular map by any number of
\* advance calls, the guard's position is inside the grid and not an obstacle
\* cell, and the heading is one of Up, Right, Down, Left (the unreachable
\* branch of rotate is never run).
C20_GuardOnFreeCell ==
    (IsRectangular(input) /\ pc \notin {"init", "start", "no_input", "parse_error"})
        => /\ pc \in {"loop", "advance_error"}
           /\ lab.parsed
                  => /\ InGrid(lab.obstacles, lab.guard.position)
                     /\ ~cell(lab.obstacles, lab.guard.position[1], lab.guard.position[2])
                     /\ lab.guard.direction \in {Up, Right, Down, Left}

\* The guard of a rectangular map has walked and been turned three times.
C20_Witness ==
    /\ IsRectangular(input)
    /\ pc = "loop"
    /\ call.op = "advance"
    /\ ~HasLeft
    /\ lab.guard.direction = Left
    /\ Cardinality(trail.occupied) >= 2

====
